---- MODULE Spec2Model ----
(***************************************************************************)
(* Connection registry, idle reaper and SSE subscriber hub of server.py.   *)
(* One process per connection thread (HealthAppHandler.handle), one        *)
(* reaper thread (cleanup_inactive_connections) and one watcher thread     *)
(* (FileChangeHandler) calling notify_sse_clients.                         *)
(***************************************************************************)
EXTENDS Integers, Sequences, FiniteSets, TLC

\* ---- bounds of the model ------------------------------------------------
\* server.py sets MAX_CONNECTIONS_PER_IP = 50 and CONNECTION_TIMEOUT = 300 s;
\* the model keeps the comparisons and scales the numbers down.
MAX_CONNECTIONS_PER_IP == 2
CONNECTION_TIMEOUT == 1
\* connection threads: one more than the limit, so that a rejection happens
NumThreads == MAX_CONNECTIONS_PER_IP + 1
\* calls of notify_sse_clients in one behaviour
MaxNotify == 2
\* connections that ask for the streaming endpoint
MaxSubscribers == 2
\* the clock runs 0..MaxTime
MaxTime == 2
\* the watcher's clock runs 0..MaxWatchTime, in tenths of a second
MaxWatchTime == 6
\* filesystem notifications delivered in one behaviour
MaxEvents == 3

\* restarts asked for on the dashboard in one behaviour
MaxRestarts == 1
\* server_worker threads started in one behaviour
MaxWorkers == 3

\* on_modified ignores a path modified less than 0.5 s ago: 5 tenths
DEBOUNCE_TENTHS == 5

Threads == 1..NumThreads
IPs == {"ip1", "ip2"}
\* the peers: the last thread serves a peer of either address, the others
\* serve peers of the first address
PeerAddresses(t) == IF t = NumThreads THEN IPs ELSE {"ip1"}
None == "None"
Outcomes == {"normal", "transport", "other"}
\* the watcher thread, as a holder of sse_lock
Watcher == 0

\* the server_worker threads, in the order in which they are started; the
\* instance that worker k creates is instance k
Workers == 1..MaxWorkers
\* the threads that call start_server_thread: the main thread and the
\* restart_thread of the dashboard
Callers == {"main", "restart"}

VARIABLES
    pc,                 \* position of each connection thread
    client_ip,          \* self.client_ip of each handler
    active_connections, \* IP -> set of thread ids (keys: the tracked IPs)
    last_activity,      \* IP -> timestamp (keys: the IPs with an entry)
    connection_lock,    \* the set of threads holding connection_lock (at most one)
    now,                \* time.time()
    reaper_pc,          \* position of cleanup_inactive_connections
    current_time,       \* the reaper's local current_time
    outcome,            \* how super().handle() ended (until the release step)
    releases,           \* how often each thread ran the release step
    sse_clients,        \* the list of subscriber streams (one per thread)
    file_change_event,  \* the flag of the threading.Event
    closed,             \* the streams whose peer has gone: writes to them fail
    notify_pc,          \* position of the watcher thread in notify_sse_clients
    notify_calls,       \* calls of notify_sse_clients so far
    notified,           \* the streams for which notify_sse_clients has been
                        \* called since they were added to sse_clients
    owed,               \* the streams that were in sse_clients at a call and
                        \* have had no reload frame written since
    sse_lock,           \* the set of threads holding sse_lock (at most one)
    reloads,            \* the reload frames written to each listening stream
    wclock,             \* time.time() as the watcher reads it, in tenths of a second
    last_modified,      \* FileChangeHandler.last_modified: path -> timestamp
    event,              \* the filesystem notification delivered last
    events,             \* notifications delivered so far
    last_call,          \* path -> when a notification for it last led to a call
                        \* of notify_sse_clients
    last_seen,          \* path -> when a notification for it was last delivered
    listening,          \* the streams that had their connected frame, and were
                        \* writable, when the first notification was delivered
    writing,            \* the pairs <<w, s>>: thread w is inside a write of a
                        \* frame to stream s
    notify_i,           \* the streams the loop of notify_sse_clients has dealt
                        \* with in the pass under way
    server_instance,    \* the global server_instance: 0 for None
    server_thread,      \* the global server_thread: 0 for None
    worker_pc,          \* position of each server_worker thread
    shutdown_request,   \* the instances whose shutdown() has been called
    caller_pc,          \* position of the main thread and of restart_thread
    stopping,           \* the instance whose shutdown() each of them is in
    restarting,         \* the global restarting
    restarts            \* restarts accepted from the dashboard

registry_vars == <<client_ip, active_connections, last_activity, connection_lock,
                   now, reaper_pc, current_time, outcome, releases>>
hub_vars == <<sse_clients, file_change_event, closed, notify_pc, notify_calls,
              notified, owed, sse_lock, reloads>>
watch_vars == <<wclock, last_modified, event, events, last_call, last_seen,
                listening>>
write_vars == <<writing, notify_i>>
server_vars == <<server_instance, server_thread, worker_pc, shutdown_request,
                 caller_pc, stopping, restarting, restarts>>
vars == <<pc, registry_vars, hub_vars, watch_vars, write_vars, server_vars>>

\* ---- helpers --------------------------------------------------------------
\* dict.get(ip, set())
GetSet(d, ip) == IF ip \in DOMAIN d THEN d[ip] ELSE {}

\* d[ip] = v  (creates the key when missing)
Put(d, ip, v) == [x \in DOMAIN d \cup {ip} |-> IF x = ip THEN v ELSE d[x]]

\* del d[ip]
Del(d, ip) == [x \in DOMAIN d \ {ip} |-> d[x]]

\* threading.Lock is not reentrant: acquire succeeds only when nobody holds it
LockReentrant(lock, t) == lock \subseteq {t}
LockAvailable(lock, t) == lock = {}

\* the thread is inside the rejection branch of handle (it holds the lock
\* across send_error)
Rejecting(t) == connection_lock = {t}

\* a release that drops the whole entry of the address
ReleaseDropsEntry(ac, ip, t) ==
    IF ip \in DOMAIN ac THEN Del(ac, ip) ELSE ac

\* the release step of handle's finally block
ReleaseNoDelete(ac, ip, t) ==
    IF ip \in DOMAIN ac THEN Put(ac, ip, ac[ip] \ {t}) ELSE ac
ReleaseEntry(ac, ip, t) ==
    IF ip \in DOMAIN ac
    THEN IF ac[ip] \ {t} = {} THEN Del(ac, ip) ELSE Put(ac, ip, ac[ip] \ {t})
    ELSE ac

\* where control goes when super().handle() ends with outcome o:
\* try / except / finally runs the release step on every exit
AfterHandleNoFinally(o) == IF o = "other" THEN "done" ELSE "release"
AfterHandle(o) == "release"

\* the reaper's test for one address
\* the test with >= for >
IsInactiveOrEqual(cur, last) == cur - last >= CONNECTION_TIMEOUT
IsInactive(cur, last) == cur - last > CONNECTION_TIMEOUT

Init ==
    /\ pc = [t \in Threads |-> "idle"]
    /\ client_ip = [t \in Threads |-> None]
    /\ active_connections = <<>>
    /\ last_activity = <<>>
    /\ connection_lock = {}
    /\ now = 0
    /\ reaper_pc = "sleep"
    /\ current_time = 0
    /\ outcome = [t \in Threads |-> None]
    /\ releases = [t \in Threads |-> 0]
    /\ sse_clients = <<>>
    /\ file_change_event = FALSE
    /\ closed = {}
    /\ notify_pc = "idle"
    /\ notify_calls = 0
    /\ notified = {}
    /\ owed = {}
    /\ sse_lock = {}
    /\ reloads = [t \in Threads |-> 0]
    /\ wclock = 0
    /\ last_modified = <<>>
    /\ event = None
    /\ events = 0
    /\ last_call = <<>>
    /\ last_seen = <<>>
    /\ listening = {}
    /\ writing = {}
    /\ notify_i = 0
    /\ server_instance = 0
    /\ server_thread = 0
    /\ worker_pc = [k \in Workers |-> "unborn"]
    /\ shutdown_request = {}
    /\ caller_pc = [c \in Callers |-> IF c = "main" THEN "s_check" ELSE "idle"]
    /\ stopping = [c \in Callers |-> 0]
    /\ restarting = FALSE
    /\ restarts = 0
\* ---- HealthAppHandler.handle ---------------------------------------------
\* admission that tracks the connection without touching last_activity
AdmitNoTouch(t) ==
    /\ pc[t] = "idle"
    /\ LockAvailable(connection_lock, t)
    /\ \E ip \in PeerAddresses(t) :
        /\ Cardinality(GetSet(active_connections, ip)) < MAX_CONNECTIONS_PER_IP
        /\ client_ip' = [client_ip EXCEPT ![t] = ip]
        /\ active_connections' =
              Put(active_connections, ip, GetSet(active_connections, ip) \cup {t})
    /\ pc' = [pc EXCEPT ![t] = "handling"]
    /\ UNCHANGED <<last_activity, connection_lock, now, reaper_pc, current_time,
                   outcome, releases, hub_vars, watch_vars,
                   write_vars, server_vars>>

\* admission: the limit is not reached, the connection is tracked
Admit(t) ==
    /\ pc[t] = "idle"
    /\ LockAvailable(connection_lock, t)
    /\ \E ip \in PeerAddresses(t) :
        /\ Cardinality(GetSet(active_connections, ip)) < MAX_CONNECTIONS_PER_IP
        /\ client_ip' = [client_ip EXCEPT ![t] = ip]
        /\ active_connections' =
              Put(active_connections, ip, GetSet(active_connections, ip) \cup {t})
        /\ last_activity' = Put(last_activity, ip, now)
    /\ pc' = [pc EXCEPT ![t] = "handling"]
    /\ UNCHANGED <<connection_lock, now, reaper_pc, current_time, outcome,
                   releases, hub_vars, watch_vars, write_vars, server_vars>>

\* admission check fails: send_error(503) is called inside the with block, so
\* the thread keeps connection_lock while it runs send_error. send_error
\* starts with log_error; the message "code 503, message Too many ..." is not
\* one of the suppressed ones, so log_error ends in super().log_error, which
\* calls self.log_message
RejectCheck(t) ==
    /\ pc[t] = "idle"
    /\ LockAvailable(connection_lock, t)
    /\ \E ip \in PeerAddresses(t) :
        /\ Cardinality(GetSet(active_connections, ip)) >= MAX_CONNECTIONS_PER_IP
        /\ client_ip' = [client_ip EXCEPT ![t] = ip]
    /\ connection_lock' = {t}
    /\ pc' = [pc EXCEPT ![t] = "log_message"]
    /\ UNCHANGED <<active_connections, last_activity, now, reaper_pc,
                   current_time, outcome, releases, hub_vars, watch_vars,
                   write_vars, server_vars>>

\* an ordinary request: send_response calls log_request
DoRequest(t) ==
    /\ pc[t] = "handling"
    /\ pc' = [pc EXCEPT ![t] = "log_request"]
    /\ UNCHANGED <<registry_vars, hub_vars, watch_vars,
                   write_vars, server_vars>>

\* a request answered with send_error (404 ...): send_error calls log_error,
\* which calls log_message
DoSendError(t) ==
    /\ pc[t] = "handling"
    /\ pc' = [pc EXCEPT ![t] = "log_message"]
    /\ UNCHANGED <<registry_vars, hub_vars, watch_vars,
                   write_vars, server_vars>>

\* log_message: with connection_lock: last_activity[client_ip] = time.time();
\* then send_error goes on to send_response, which calls log_request
LogMessage(t) ==
    /\ pc[t] = "log_message"
    /\ LockAvailable(connection_lock, t)
    /\ last_activity' = Put(last_activity, client_ip[t], now)
    /\ pc' = [pc EXCEPT ![t] = "log_request"]
    /\ UNCHANGED <<client_ip, active_connections, connection_lock, now,
                   reaper_pc, current_time, outcome, releases, hub_vars, watch_vars,
                   write_vars, server_vars>>

\* the touch with the clock read before the lock is waited for: the value
\* written may be older than the clock is when the lock is held
LogRequestStale(t) ==
    /\ pc[t] = "log_request"
    /\ LockAvailable(connection_lock, t)
    /\ \E stale \in 0..now : last_activity' = Put(last_activity, client_ip[t], stale)
    /\ connection_lock' = connection_lock
    /\ pc' = [pc EXCEPT ![t] = "handled"]
    /\ UNCHANGED <<client_ip, active_connections, now, reaper_pc, current_time,
                   outcome, releases, hub_vars, watch_vars,
                   write_vars, server_vars>>

\* log_request: with connection_lock: last_activity[client_ip] = time.time();
\* the response is then written; a rejected connection returns from handle
\* (leaving the with block), an admitted one has served its request
LogRequest(t) ==
    /\ pc[t] = "log_request"
    /\ LockAvailable(connection_lock, t)
    /\ last_activity' = Put(last_activity, client_ip[t], now)
    /\ IF Rejecting(t)
       THEN /\ connection_lock' = {}
            /\ pc' = [pc EXCEPT ![t] = "rejected"]
       ELSE /\ connection_lock' = connection_lock
            /\ pc' = [pc EXCEPT ![t] = "handled"]
    /\ UNCHANGED <<client_ip, active_connections, now, reaper_pc, current_time,
                   outcome, releases, hub_vars, watch_vars,
                   write_vars, server_vars>>

\* super().handle() ends: normally after the request, or with a transport
\* error or another exception at any point of it
HandleReturn(t) ==
    /\ pc[t] \in {"handling", "handled"}
    /\ \E o \in Outcomes :
        /\ pc[t] = "handled" \/ o # "normal"
        /\ outcome' = [outcome EXCEPT ![t] = o]
        /\ pc' = [pc EXCEPT ![t] = AfterHandle(o)]
    /\ UNCHANGED <<client_ip, active_connections, last_activity, connection_lock,
                   now, reaper_pc, current_time, releases, hub_vars, watch_vars,
                   write_vars, server_vars>>

\* finally: with connection_lock: discard the thread id, drop an empty entry
Release(t) ==
    /\ pc[t] = "release"
    /\ LockAvailable(connection_lock, t)
    /\ active_connections' = ReleaseEntry(active_connections, client_ip[t], t)
    /\ releases' = [releases EXCEPT ![t] = @ + 1]
    /\ outcome' = [outcome EXCEPT ![t] = None]   \* the exception is gone
    /\ pc' = [pc EXCEPT ![t] = "done"]
    /\ UNCHANGED <<client_ip, last_activity, connection_lock, now, reaper_pc,
                   current_time, hub_vars, watch_vars, write_vars, server_vars>>

\* handle_client_log and handle_sync_log touch the address themselves while
\* they serve the request: with connection_lock: last_activity[client_ip] =
\* time.time()
HandlerTouch(t) ==
    /\ pc[t] = "handling"
    /\ LockAvailable(connection_lock, t)
    /\ last_activity' = Put(last_activity, client_ip[t], now)
    /\ UNCHANGED <<pc, client_ip, active_connections, connection_lock, now,
                   reaper_pc, current_time, outcome, releases, hub_vars, watch_vars,
                   write_vars, server_vars>>

\* ---- the clock -----------------------------------------------------------
Tick ==
    /\ now < MaxTime
    /\ now' = now + 1
    /\ UNCHANGED <<pc, client_ip, active_connections, last_activity,
                   connection_lock, reaper_pc, current_time, outcome, releases,
                   hub_vars, watch_vars, write_vars, server_vars>>

\* ---- cleanup_inactive_connections ----------------------------------------
\* time.sleep(CLEANUP_INTERVAL); current_time = time.time()
ReaperWake ==
    /\ reaper_pc = "sleep"
    /\ current_time' = now
    /\ reaper_pc' = "pass"
    /\ UNCHANGED <<pc, client_ip, active_connections, last_activity,
                   connection_lock, now, outcome, releases, hub_vars, watch_vars,
                   write_vars, server_vars>>

InactiveIPs ==
    {ip \in DOMAIN last_activity : IsInactive(current_time, last_activity[ip])}

\* with connection_lock: every address whose last activity is too old loses
\* its entries in active_connections and last_activity
ReaperPass ==
    /\ reaper_pc = "pass"
    /\ connection_lock = {}
    /\ active_connections' =
          [ip \in DOMAIN active_connections \ InactiveIPs |-> active_connections[ip]]
    /\ last_activity' =
          [ip \in DOMAIN last_activity \ InactiveIPs |-> last_activity[ip]]
    /\ reaper_pc' = "sleep"
    /\ current_time' = 0   \* the local is dead until the next iteration sets it
    /\ UNCHANGED <<pc, client_ip, connection_lock, now, outcome, releases,
                   hub_vars, watch_vars, write_vars, server_vars>>

\* where the reaper goes when an iteration raises: without the except
\* clause the exception would end the thread
AfterRaiseUncaught == "dead"
\* except Exception: the error is logged
AfterRaise == "except"

\* an iteration raises inside the with block (the calls of logger.info are
\* what can fail there), after the addresses in removed have been deleted:
\* the with statement releases connection_lock as the exception leaves the
\* block, and the except clause of the loop catches it
ReaperRaise ==
    /\ reaper_pc = "pass"
    /\ connection_lock = {}
    /\ \E removed \in SUBSET InactiveIPs :
          /\ active_connections' =
                [ip \in DOMAIN active_connections \ removed |-> active_connections[ip]]
          /\ last_activity' =
                [ip \in DOMAIN last_activity \ removed |-> last_activity[ip]]
    /\ connection_lock' = {}
    /\ reaper_pc' = AfterRaise
    /\ current_time' = 0
    /\ UNCHANGED <<pc, client_ip, now, outcome, releases, hub_vars, watch_vars,
                   write_vars, server_vars>>

\* logger.error(...) in the except clause; the while loop starts its next
\* iteration
ReaperLogError ==
    /\ reaper_pc = "except"
    /\ reaper_pc' = "sleep"
    /\ UNCHANGED <<pc, client_ip, active_connections, last_activity,
                   connection_lock, now, current_time, outcome, releases,
                   hub_vars, watch_vars, write_vars, server_vars>>

\* the steps of a connection thread outside the streaming endpoint
HandleStep(t) ==
    \/ Admit(t)
    \/ RejectCheck(t)
    \/ DoRequest(t)
    \/ DoSendError(t)
    \/ LogMessage(t)
    \/ LogRequest(t)
    \/ HandleReturn(t)
    \/ Release(t)

\* connections, the clock and the reaper
Next ==
    \/ \E t \in Threads : HandleStep(t)
    \/ Tick
    \/ ReaperWake
    \/ ReaperPass

Spec == Init /\ [][Next]_vars

\* the same with iterations of the reaper that raise
ReaperNext ==
    \/ Next
    \/ ReaperRaise
    \/ ReaperLogError

ReaperSpec == Init /\ [][ReaperNext]_vars

\* the same with the handlers that touch the address themselves
TouchNext ==
    \/ Next
    \/ \E t \in Threads : HandlerTouch(t)

TouchSpec == Init /\ [][TouchNext]_vars

\* ---- HealthAppHandler.handle_sse_reload ----------------------------------
\* the filter left out
WithStream(clients, t) == clients

\* the filter by address: every stream of the same address is dropped
WithoutAddress(clients, t) ==
    SelectSeq(clients, LAMBDA w : client_ip[w] # client_ip[t])

\* [(ip, w) for ip, w in sse_clients if w != self.wfile]
WithoutStream(clients, t) == SelectSeq(clients, LAMBDA w : w # t)

Streams(clients) == {clients[i] : i \in DOMAIN clients}

\* GET /api/reload: send_response(200) calls log_request, which updates
\* last_activity under connection_lock; end_headers writes the headers, and a
\* failure of that write leaves through the except / finally of the handler
DoSse(t) ==
    /\ pc[t] = "handling"
    /\ LockAvailable(connection_lock, t)
    /\ last_activity' = Put(last_activity, client_ip[t], now)
    /\ pc' = [pc EXCEPT ![t] = IF t \in closed THEN "sse_cleanup" ELSE "sse_register"]
    /\ UNCHANGED <<client_ip, active_connections, connection_lock, now,
                   reaper_pc, current_time, outcome, releases, hub_vars,
                   watch_vars, write_vars, server_vars>>

\* the positions at which the handler enters a "with sse_lock" block, and
\* the same with the 503 path added to them
SseLockedPcsWithReject == {"sse_register", "sse_unregister", "sse_cleanup",
                           "log_message"}
SseLockedPcs == {"sse_register", "sse_unregister", "sse_cleanup"}

\* with sse_lock: the lock is taken
SseAcquire(t) ==
    /\ pc[t] \in SseLockedPcs
    /\ LockAvailable(sse_lock, t)
    /\ sse_lock' = {t}
    /\ UNCHANGED <<pc, registry_vars, sse_clients, file_change_event, closed,
                   notify_pc, notify_calls, notified, owed,
                   reloads, watch_vars, write_vars, server_vars>>

\* with sse_lock: sse_clients.append((client_ip, self.wfile))
SseRegister(t) ==
    /\ pc[t] = "sse_register"
    /\ sse_lock = {t}
    /\ sse_clients' = Append(sse_clients, t)
    /\ sse_lock' = {}
    /\ notified' = notified \ {t}
    /\ pc' = [pc EXCEPT ![t] = "sse_connected"]
    /\ UNCHANGED <<registry_vars, file_change_event, closed, notify_pc,
                   notify_calls, owed, reloads, watch_vars,
                   write_vars, server_vars>>

\* the connected frame; when the write fails the handler goes on to filter
\* its stream out of sse_clients
SseConnected(t) ==
    /\ pc[t] = "sse_connected"
    /\ pc' = [pc EXCEPT ![t] = IF t \in closed THEN "sse_unregister" ELSE "sse_loop"]
    /\ writing' = writing \ {<<t, t>>}
    /\ UNCHANGED <<registry_vars, sse_clients, file_change_event, closed,
                   notify_pc, notify_calls, notified, owed, sse_lock, reloads,
                   watch_vars, notify_i, server_vars>>

\* except: with sse_lock: the stream is filtered out; return runs the finally
\* block of the handler
SseUnregister(t) ==
    /\ pc[t] = "sse_unregister"
    /\ sse_lock = {t}
    /\ sse_clients' = WithoutStream(sse_clients, t)
    /\ sse_lock' = {}
    /\ pc' = [pc EXCEPT ![t] = "sse_cleanup"]
    /\ UNCHANGED <<registry_vars, file_change_event, closed, notify_pc,
                   notify_calls, notified, owed, reloads,
                   watch_vars, write_vars, server_vars>>

\* file_change_event.wait(timeout=30): returns True at once when the flag is
\* set, otherwise the thread blocks on the event's condition
SseWait(t) ==
    /\ pc[t] = "sse_loop"
    /\ pc' = [pc EXCEPT ![t] = IF file_change_event THEN "sse_reload" ELSE "sse_blocked"]
    /\ UNCHANGED <<registry_vars, hub_vars, watch_vars,
                   write_vars, server_vars>>

\* the wait times out: it returns False and a keepalive is due
SseTimeout(t) ==
    /\ pc[t] = "sse_blocked"
    /\ pc' = [pc EXCEPT ![t] = "sse_keepalive"]
    /\ UNCHANGED <<registry_vars, hub_vars, watch_vars,
                   write_vars, server_vars>>

\* the reload frame: write and flush; a transport error breaks the loop
SseWriteReload(t) ==
    /\ pc[t] = "sse_reload"
    /\ IF t \in closed
       THEN /\ reloads' = reloads
            /\ pc' = [pc EXCEPT ![t] = "sse_cleanup"]
       ELSE /\ reloads' = IF t \in listening
                          THEN [reloads EXCEPT ![t] = @ + 1] ELSE reloads
            /\ pc' = [pc EXCEPT ![t] = "sse_clear"]
    /\ owed' = owed \ {t}
    /\ writing' = writing \ {<<t, t>>}
    /\ UNCHANGED <<registry_vars, sse_clients, file_change_event, closed,
                   notify_pc, notify_calls, notified, sse_lock,
                   watch_vars, notify_i, server_vars>>

\* file_change_event.clear(), after a reload frame has been written
SseClear(t) ==
    /\ pc[t] = "sse_clear"
    /\ file_change_event' = FALSE
    /\ pc' = [pc EXCEPT ![t] = "sse_loop"]
    /\ UNCHANGED <<registry_vars, sse_clients, closed, notify_pc, notify_calls,
                   notified, owed, sse_lock, reloads, watch_vars,
                   write_vars, server_vars>>

\* the keepalive comment: write and flush; a transport error breaks the loop.
\* Nothing else is done for a frame: no log_request, no log_message
SseWriteKeepalive(t) ==
    /\ pc[t] = "sse_keepalive"
    /\ pc' = [pc EXCEPT ![t] = IF t \in closed THEN "sse_cleanup" ELSE "sse_loop"]
    /\ writing' = writing \ {<<t, t>>}
    /\ UNCHANGED <<registry_vars, hub_vars, watch_vars, notify_i, server_vars>>

\* finally: with sse_lock: the stream is filtered out of sse_clients; the
\* handler returns and the request is over
SseCleanup(t) ==
    /\ pc[t] = "sse_cleanup"
    /\ sse_lock = {t}
    /\ sse_clients' = WithoutStream(sse_clients, t)
    /\ sse_lock' = {}
    /\ notified' = notified \ {t}
    /\ pc' = [pc EXCEPT ![t] = "handled"]
    /\ UNCHANGED <<registry_vars, file_change_event, closed, notify_pc,
                   notify_calls, owed, reloads, watch_vars,
                   write_vars, server_vars>>

\* the positions of the streaming loop: the connected frame has been written
LoopPcs == {"sse_loop", "sse_blocked", "sse_reload", "sse_clear", "sse_keepalive"}

\* the peer of an open connection closes its socket: from now on every write
\* to the stream raises
OpenPcs == {"handling", "sse_register", "sse_connected"} \cup LoopPcs

PeerClose(t) ==
    /\ pc[t] \in OpenPcs
    /\ t \notin closed
    /\ closed' = closed \cup {t}
    /\ owed' = owed \ {t}
    /\ UNCHANGED <<pc, registry_vars, sse_clients, file_change_event, notify_pc,
                   notify_calls, notified, sse_lock, reloads,
                   watch_vars, write_vars, server_vars>>

\* ---- notify_sse_clients --------------------------------------------------
\* file_change_event.set(): the flag is set and every thread blocked in
\* wait() is woken (its wait returns True)
Woken(p) == IF p = "sse_blocked" THEN "sse_reload" ELSE p

\* the call as far as file_change_event.set()
NotifyBegin ==
    /\ notify_pc = "idle"
    /\ notify_calls' = notify_calls + 1
    /\ file_change_event' = TRUE
    /\ pc' = [t \in Threads |-> Woken(pc[t])]
    /\ notified' = notified \cup Streams(sse_clients)
    /\ owed' = owed \cup (Streams(sse_clients) \ closed)
    /\ notify_pc' = "pass"
    /\ UNCHANGED <<registry_vars, sse_clients, closed, sse_lock,
                   reloads>>

\* a call whose cause is left open
NotifySet ==
    /\ notify_calls < MaxNotify
    /\ NotifyBegin
    /\ UNCHANGED <<watch_vars, write_vars, server_vars>>

\* with sse_lock: the lock is taken
NotifyAcquire ==
    /\ notify_pc = "pass"
    /\ LockAvailable(sse_lock, Watcher)
    /\ sse_lock' = {Watcher}
    /\ UNCHANGED <<pc, registry_vars, sse_clients, file_change_event, closed,
                   notify_pc, notify_calls, notified, owed,
                   reloads, watch_vars, write_vars, server_vars>>

\* the loop over sse_clients: a keepalive is written to every stream in
\* turn; a stream whose write raises (BrokenPipeError, ConnectionResetError,
\* OSError) is skipped, the others are appended to alive_clients
RECURSIVE AliveLoop(_, _, _, _)
AliveLoop(clients, dead, i, alive) ==
    IF i > Len(clients) THEN alive
    ELSE IF clients[i] \in dead
         THEN AliveLoop(clients, dead, i + 1, alive)
         ELSE AliveLoop(clients, dead, i + 1, Append(alive, clients[i]))

\* the loop ended by the first failing write
RECURSIVE AliveUntilFailure(_, _)
AliveUntilFailure(clients, dead) ==
    IF clients = <<>> \/ Head(clients) \in dead THEN <<>>
    ELSE <<Head(clients)>> \o AliveUntilFailure(Tail(clients), dead)

AliveClients(clients, dead) == AliveLoop(clients, dead, 1, <<>>)

\* the streams the loop writes its keepalive to
KeepaliveWritten(clients, dead) == Streams(clients) \ dead

\* with sse_lock: ... sse_clients[:] = alive_clients
NotifyPass ==
    /\ notify_pc = "pass"
    /\ sse_lock = {Watcher}
    /\ sse_clients' = AliveClients(sse_clients, closed)
    /\ sse_lock' = {}
    /\ notify_pc' = "idle"
    /\ notify_i' = 0
    /\ UNCHANGED <<pc, registry_vars, file_change_event, closed, notify_calls,
                   notified, owed, reloads, watch_vars, writing, server_vars>>

\* the steps of a connection thread inside the streaming endpoint
SseStep(t) ==
    \/ DoSse(t)
    \/ SseAcquire(t)
    \/ SseRegister(t)
    \/ SseConnected(t)
    \/ SseUnregister(t)
    \/ SseWait(t)
    \/ SseTimeout(t)
    \/ SseWriteReload(t)
    \/ SseClear(t)
    \/ SseWriteKeepalive(t)
    \/ SseCleanup(t)

\* the connections that subscribe
Subscribers == 1..MaxSubscribers

\* subscribers, their peers and the watcher thread
HubNext ==
    \/ \E t \in Subscribers : Admit(t)
    \/ \E t \in Subscribers : SseStep(t)
    \/ \E t \in Subscribers : PeerClose(t)
    \/ NotifySet
    \/ NotifyAcquire
    \/ NotifyPass

HubSpec == Init /\ [][HubNext]_vars

\* every connection thread is scheduled again and again and gets a lock that
\* is free again and again, and a call of notify_sse_clients that has begun
\* completes; file changes and peers are the environment and need not act
HubFairSpec ==
    /\ HubSpec
    /\ SF_vars(NotifyAcquire)
    /\ WF_vars(NotifyPass)
    /\ \A t \in Subscribers : SF_vars(SseStep(t))

\* every connection thread is scheduled again and again; the clock, the
\* reaper's timer and the peers are not required to act
FairSpec == Spec /\ \A t \in Threads : WF_vars(HandleStep(t))

\* the same, and time passes and the reaper thread is scheduled again and
\* again and gets connection_lock whenever it is free again and again
ReaperFairSpec ==
    /\ FairSpec
    /\ WF_vars(Tick)
    /\ WF_vars(ReaperWake)
    /\ SF_vars(ReaperPass)

\* ---- FileChangeHandler ---------------------------------------------------
EventKinds == {"modified", "created", "deleted"}

\* event.src_path, as the sequence of its parts: directories, file name,
\* extension
Paths == {<<"app", ".js">>, <<"notes", ".txt">>, <<"logs", "app", ".js">>,
          <<".GIT", "hooks", ".py">>}

\* the notifications the observer can deliver
Events == [path : Paths, kind : EventKinds, is_directory : BOOLEAN]

ignore_patterns == {".git", "__pycache__", ".pyc", ".log", "logs",
                    ".DS_Store", "Thumbs.db", ".swp", ".tmp"}

\* str.lower() on the parts in use
Lower(s) ==
    CASE s = ".GIT" -> ".git"
      [] s = ".DS_Store" -> ".ds_store"
      [] s = "Thumbs.db" -> "thumbs.db"
      [] OTHER -> s

\* any(pattern.lower() in str(path).lower() for pattern in ignore_patterns)
should_ignore(path) ==
    \E i \in DOMAIN path : \E p \in ignore_patterns : Lower(p) = Lower(path[i])

watched_extensions == {".html", ".js", ".css", ".json", ".py"}

\* any(event.src_path.endswith(ext) for ext in [...])
HasWatchedExtension(path) == path[Len(path)] \in watched_extensions

Debounced(lm, path, cur) ==
    path \in DOMAIN lm /\ cur - lm[path] < DEBOUNCE_TENTHS

\* the streams that have had their connected frame and are writable
Listening == {t \in Streams(sse_clients) \ closed : pc[t] \in LoopPcs}

\* the observer thread hands one notification to the handler; it does so
\* from a single thread, so the call before it has returned
Deliver(e) ==
    /\ events < MaxEvents
    /\ notify_pc = "idle"
    /\ event' = e
    /\ events' = events + 1
    /\ last_seen' = IF e.is_directory THEN last_seen
                    ELSE Put(last_seen, e.path, wclock)
    /\ listening' = IF events = 0 THEN Listening ELSE listening
    /\ wclock' = wclock
    /\ UNCHANGED <<write_vars, server_vars>>

\* the handler returns without calling notify_sse_clients
Dropped ==
    /\ last_call' = last_call
    /\ UNCHANGED <<pc, registry_vars, hub_vars>>

\* the handler calls notify_sse_clients()
Calling(e) ==
    /\ last_call' = Put(last_call, e.path, wclock)
    /\ NotifyBegin

\* the debounce with a sliding window: a suppressed modification restarts
\* the window of its path
OnModifiedSliding(e) ==
    /\ e.kind = "modified"
    /\ Deliver(e)
    /\ IF e.is_directory \/ should_ignore(e.path) \/ ~HasWatchedExtension(e.path)
       THEN /\ last_modified' = last_modified
            /\ Dropped
       ELSE IF Debounced(last_modified, e.path, wclock)
            THEN /\ last_modified' = Put(last_modified, e.path, wclock)
                 /\ Dropped
            ELSE /\ last_modified' = Put(last_modified, e.path, wclock)
                 /\ Calling(e)

\* on_modified: directories, ignored paths, other extensions and paths
\* modified less than 0.5 s before are dropped without touching
\* last_modified
OnModified(e) ==
    /\ e.kind = "modified"
    /\ Deliver(e)
    /\ IF \/ e.is_directory
          \/ should_ignore(e.path)
          \/ ~HasWatchedExtension(e.path)
          \/ Debounced(last_modified, e.path, wclock)
       THEN /\ last_modified' = last_modified
            /\ Dropped
       ELSE /\ last_modified' = Put(last_modified, e.path, wclock)
            /\ Calling(e)

OnCreated(e) ==
    /\ e.kind = "created"
    /\ Deliver(e)
    /\ last_modified' = last_modified
    /\ IF e.is_directory \/ should_ignore(e.path)
       THEN Dropped
       ELSE Calling(e)

OnDeleted(e) ==
    /\ e.kind = "deleted"
    /\ Deliver(e)
    /\ last_modified' = last_modified
    /\ IF e.is_directory \/ should_ignore(e.path)
       THEN Dropped
       ELSE Calling(e)

\* a tenth of a second passes
WatchTick ==
    /\ wclock < MaxWatchTime
    /\ wclock' = wclock + 1
    /\ UNCHANGED <<pc, registry_vars, hub_vars, last_modified, event, events,
                   last_call, last_seen, listening, write_vars, server_vars>>

\* the watcher thread alone: notifications of every kind for every path
WatchNext ==
    \/ \E e \in Events : OnModified(e)
    \/ \E e \in Events : OnCreated(e)
    \/ \E e \in Events : OnDeleted(e)
    \/ NotifyAcquire
    \/ NotifyPass
    \/ WatchTick

WatchSpec == Init /\ [][WatchNext]_vars

\* ---- one watched file modified rapidly, with subscribers -----------------
\* the file that is modified
WatchedFile == <<"app", ".js">>
ModifiedEvents == {e \in Events : e.path = WatchedFile /\ e.kind = "modified"
                                   /\ ~e.is_directory}

\* all modifications fall within 0.2 s: 2 tenths
WINDOW_TENTHS == 2

WindowTick == wclock < WINDOW_TENTHS /\ WatchTick

ReloadNext ==
    \/ \E t \in Subscribers : Admit(t)
    \/ \E t \in Subscribers : SseStep(t)
    \/ \E t \in Subscribers : PeerClose(t)
    \/ \E e \in ModifiedEvents : OnModified(e)
    \/ NotifyAcquire
    \/ NotifyPass
    \/ WindowTick

ReloadSpec == Init /\ [][ReloadNext]_vars

\* ---- one watched file modified again and again ---------------------------
EditNext ==
    \/ \E e \in ModifiedEvents : OnModified(e)
    \/ NotifyAcquire
    \/ NotifyPass
    \/ WatchTick

EditSpec == Init /\ [][EditNext]_vars

\* ---- streaming connections in the registry -------------------------------
\* subscribers from admission to release, a further connection that is
\* rejected when the subscribers fill the limit, and the watcher
StreamNext ==
    \/ \E t \in Subscribers : Admit(t)
    \/ \E t \in Threads : SseStep(t)
    \/ \E t \in Subscribers : PeerClose(t)
    \/ \E t \in Subscribers : HandleReturn(t)
    \/ \E t \in Subscribers : Release(t)
    \/ \E t \in Threads \ Subscribers : RejectCheck(t)
    \/ NotifySet
    \/ NotifyAcquire
    \/ NotifyPass

StreamSpec == Init /\ [][StreamNext]_vars

\* the same while the clock runs
TimedStreamNext ==
    \/ StreamNext
    \/ Tick

TimedStreamSpec == Init /\ [][TimedStreamNext]_vars

\* every connection thread is scheduled again and again and gets a lock that
\* is free again and again; a call of notify_sse_clients completes
StreamFairSpec ==
    /\ StreamSpec
    /\ SF_vars(NotifyAcquire)
    /\ WF_vars(NotifyPass)
    /\ \A t \in Subscribers :
          SF_vars(Admit(t) \/ SseStep(t) \/ HandleReturn(t) \/ Release(t))

\* ---- the frames written to one stream ------------------------------------
\* the positions at which handle_sse_reload writes a frame: the connected
\* frame, a reload frame, a keepalive
FramePcs == {"sse_connected", "sse_reload", "sse_keepalive"}

\* self.wfile.write(...) is entered; the write and the flush after it take
\* time, and the handler holds no lock meanwhile
SseWriteBegin(t) ==
    /\ pc[t] \in FramePcs
    /\ <<t, t>> \notin writing
    /\ writing' = writing \cup {<<t, t>>}
    /\ UNCHANGED <<pc, registry_vars, hub_vars, watch_vars, notify_i, server_vars>>

\* a step of the handler; a frame is completed after its write was entered
SseWriteStep(t) ==
    /\ pc[t] \in FramePcs => <<t, t>> \in writing
    /\ SseStep(t)

\* the loop of notify_sse_clients, which holds sse_lock, enters wfile.write
\* for the next stream of sse_clients
NotifyWriteBegin ==
    /\ notify_pc = "pass"
    /\ sse_lock = {Watcher}
    /\ notify_i < Len(sse_clients)
    /\ \A s \in Threads : <<Watcher, s>> \notin writing
    /\ writing' = writing \cup {<<Watcher, sse_clients[notify_i + 1]>>}
    /\ UNCHANGED <<pc, registry_vars, hub_vars, watch_vars, notify_i, server_vars>>

\* that write and its flush return or raise; the loop goes on to the next
\* stream
NotifyWriteEnd ==
    /\ \E s \in Threads : <<Watcher, s>> \in writing
    /\ writing' = {p \in writing : p[1] # Watcher}
    /\ notify_i' = notify_i + 1
    /\ UNCHANGED <<pc, registry_vars, hub_vars, watch_vars, server_vars>>

\* sse_clients[:] = alive_clients, once the loop has dealt with every stream
NotifyLoopEnd ==
    /\ notify_i = Len(sse_clients)
    /\ NotifyPass

\* a peer closes its socket while no pass is under way
PeerCloseBetweenPasses(t) ==
    /\ notify_pc = "idle"
    /\ PeerClose(t)

\* subscribers and the watcher, with the writes of frames taking time
WriteNext ==
    \/ \E t \in Subscribers : Admit(t)
    \/ \E t \in Subscribers : SseWriteBegin(t)
    \/ \E t \in Subscribers : SseWriteStep(t)
    \/ \E t \in Subscribers : PeerCloseBetweenPasses(t)
    \/ NotifySet
    \/ NotifyAcquire
    \/ NotifyWriteBegin
    \/ NotifyWriteEnd
    \/ NotifyLoopEnd

WriteSpec == Init /\ [][WriteNext]_vars

\* ---- start_server_thread, restart_server and the main loop ---------------
\* the positions inside start_server_thread
StartPcs == {"s_check", "s_shutdown", "s_spawn", "s_sleep"}

\* the server_worker threads started so far, and the one started next
Started == {k \in Workers : worker_pc[k] # "unborn"}
NextWorker == Cardinality(Started) + 1

\* the instances created so far: worker k has got through the constructor
Created == {k \in Workers : worker_pc[k] \in {"serve", "exited"}}

\* not server_thread.is_alive(): the worker has returned or raised
Dead(k) == worker_pc[k] \in {"failed", "exited"}

\* where start_server_thread returns to: the main thread goes to its loop,
\* restart_thread to its wait for the new server
AfterStart(c) == IF c = "main" THEN "loop" ELSE "r_ready"

\* if server_instance is not None: server_instance.shutdown() is called,
\* which sets the shutdown request of that instance and waits
StartCheck(c) ==
    /\ caller_pc[c] = "s_check"
    /\ IF server_instance # 0
       THEN /\ shutdown_request' = shutdown_request \cup {server_instance}
            /\ stopping' = [stopping EXCEPT ![c] = server_instance]
            /\ caller_pc' = [caller_pc EXCEPT ![c] = "s_shutdown"]
       ELSE /\ UNCHANGED <<shutdown_request, stopping>>
            /\ caller_pc' = [caller_pc EXCEPT ![c] = "s_spawn"]
    /\ UNCHANGED <<server_instance, server_thread, worker_pc, restarting, restarts>>
    /\ UNCHANGED <<pc, registry_vars, hub_vars, watch_vars, write_vars>>

\* shutdown() returns once serve_forever of that instance has ended;
\* server_thread.join(timeout=2) waits no longer than 2 s;
\* server_instance = None
StartShutdownDone(c) ==
    /\ caller_pc[c] = "s_shutdown"
    /\ worker_pc[stopping[c]] = "exited"
    /\ server_instance' = 0
    /\ stopping' = [stopping EXCEPT ![c] = 0]
    /\ caller_pc' = [caller_pc EXCEPT ![c] = "s_spawn"]
    /\ UNCHANGED <<server_thread, worker_pc, shutdown_request, restarting, restarts>>
    /\ UNCHANGED <<pc, registry_vars, hub_vars, watch_vars, write_vars>>

\* server_thread = threading.Thread(target=server_worker, daemon=True);
\* server_thread.start()
StartSpawn(c) ==
    /\ caller_pc[c] = "s_spawn"
    /\ NextWorker \in Workers
    /\ server_thread' = NextWorker
    /\ worker_pc' = [worker_pc EXCEPT ![NextWorker] = "create"]
    /\ caller_pc' = [caller_pc EXCEPT ![c] = "s_sleep"]
    /\ UNCHANGED <<server_instance, shutdown_request, stopping, restarting, restarts>>
    /\ UNCHANGED <<pc, registry_vars, hub_vars, watch_vars, write_vars>>

\* time.sleep(0.5); return server_instance
StartReturn(c) ==
    /\ caller_pc[c] = "s_sleep"
    /\ caller_pc' = [caller_pc EXCEPT ![c] = AfterStart(c)]
    /\ UNCHANGED <<server_instance, server_thread, worker_pc, shutdown_request,
                   stopping, restarting, restarts>>
    /\ UNCHANGED <<pc, registry_vars, hub_vars, watch_vars, write_vars>>

\* server_worker: with server_lock: server_instance = ThreadingHTTPServer(
\* (HOST, PORT), HealthAppHandler). The constructor binds the port; while
\* the socket of an earlier instance is open (nothing in this path closes
\* it) the bind succeeds or raises OSError, as the platform decides, and on
\* OSError the worker raises and its thread ends
WorkerCreate(k) ==
    /\ worker_pc[k] = "create"
    /\ \/ /\ server_instance' = k
          /\ worker_pc' = [worker_pc EXCEPT ![k] = "serve"]
       \/ /\ Created # {}
          /\ server_instance' = server_instance
          /\ worker_pc' = [worker_pc EXCEPT ![k] = "failed"]
    /\ UNCHANGED <<server_thread, shutdown_request, caller_pc, stopping,
                   restarting, restarts>>
    /\ UNCHANGED <<pc, registry_vars, hub_vars, watch_vars, write_vars>>

\* server_instance.serve_forever() returns when shutdown() has been called
\* for the instance; server_worker returns and its thread ends
WorkerExit(k) ==
    /\ worker_pc[k] = "serve"
    /\ k \in shutdown_request
    /\ worker_pc' = [worker_pc EXCEPT ![k] = "exited"]
    /\ UNCHANGED <<server_instance, server_thread, shutdown_request, caller_pc,
                   stopping, restarting, restarts>>
    /\ UNCHANGED <<pc, registry_vars, hub_vars, watch_vars, write_vars>>

\* main: while True: time.sleep(1); if server_thread and not
\* server_thread.is_alive(): the warning is logged and time.sleep(2) begins
MainDetect ==
    /\ caller_pc["main"] = "loop"
    /\ server_thread # 0
    /\ Dead(server_thread)
    /\ caller_pc' = [caller_pc EXCEPT !["main"] = "detected"]
    /\ UNCHANGED <<server_instance, server_thread, worker_pc, shutdown_request,
                   stopping, restarting, restarts>>
    /\ UNCHANGED <<pc, registry_vars, hub_vars, watch_vars, write_vars>>

\* main: the sleep is over and start_server_thread() is called
MainRestart ==
    /\ caller_pc["main"] = "detected"
    /\ caller_pc' = [caller_pc EXCEPT !["main"] = "s_check"]
    /\ UNCHANGED <<server_instance, server_thread, worker_pc, shutdown_request,
                   stopping, restarting, restarts>>
    /\ UNCHANGED <<pc, registry_vars, hub_vars, watch_vars, write_vars>>

\* restart_server, the command of the dashboard's button (the dashboard is
\* created after the first start_server_thread has returned): if restarting:
\* return; restarting = True; restart_thread is started
RestartServer ==
    /\ restarts < MaxRestarts
    /\ caller_pc["main"] \in {"loop", "detected"}
    /\ ~restarting
    /\ caller_pc["restart"] = "idle"
    /\ restarting' = TRUE
    /\ restarts' = restarts + 1
    /\ caller_pc' = [caller_pc EXCEPT !["restart"] = "r_shutdown"]
    /\ UNCHANGED <<server_instance, server_thread, worker_pc, shutdown_request,
                   stopping>>
    /\ UNCHANGED <<pc, registry_vars, hub_vars, watch_vars, write_vars>>

\* restart_thread: if server_instance is not None: server_instance.shutdown()
RestartShutdown ==
    /\ caller_pc["restart"] = "r_shutdown"
    /\ IF server_instance # 0
       THEN /\ shutdown_request' = shutdown_request \cup {server_instance}
            /\ stopping' = [stopping EXCEPT !["restart"] = server_instance]
            /\ caller_pc' = [caller_pc EXCEPT !["restart"] = "r_wait"]
       ELSE /\ UNCHANGED <<shutdown_request, stopping>>
            /\ caller_pc' = [caller_pc EXCEPT !["restart"] = "s_check"]
    /\ UNCHANGED <<server_instance, server_thread, worker_pc, restarting, restarts>>
    /\ UNCHANGED <<pc, registry_vars, hub_vars, watch_vars, write_vars>>

\* restart_thread: shutdown() returns; time.sleep(0.5);
\* start_server_thread() is called
RestartShutdownDone ==
    /\ caller_pc["restart"] = "r_wait"
    /\ worker_pc[stopping["restart"]] = "exited"
    /\ stopping' = [stopping EXCEPT !["restart"] = 0]
    /\ caller_pc' = [caller_pc EXCEPT !["restart"] = "s_check"]
    /\ UNCHANGED <<server_instance, server_thread, worker_pc, shutdown_request,
                   restarting, restarts>>
    /\ UNCHANGED <<pc, registry_vars, hub_vars, watch_vars, write_vars>>

\* restart_thread: the wait for the port and the browser tab are over;
\* finally: restarting = False
RestartFinish ==
    /\ caller_pc["restart"] = "r_ready"
    /\ restarting' = FALSE
    /\ caller_pc' = [caller_pc EXCEPT !["restart"] = "idle"]
    /\ UNCHANGED <<server_instance, server_thread, worker_pc, shutdown_request,
                   stopping, restarts>>
    /\ UNCHANGED <<pc, registry_vars, hub_vars, watch_vars, write_vars>>

\* the main thread, the dashboard, restart_thread and the workers
ServerNext ==
    \/ \E c \in Callers : StartCheck(c)
    \/ \E c \in Callers : StartShutdownDone(c)
    \/ \E c \in Callers : StartSpawn(c)
    \/ \E c \in Callers : StartReturn(c)
    \/ \E k \in Workers : WorkerCreate(k)
    \/ \E k \in Workers : WorkerExit(k)
    \/ MainDetect
    \/ MainRestart
    \/ RestartServer
    \/ RestartShutdown
    \/ RestartShutdownDone
    \/ RestartFinish

ServerSpec == Init /\ [][ServerNext]_vars

\* ======================= the claims =======================================

\* the connection of thread t has been admitted and has not finished
Admitted(t) == pc[t] \notin {"idle", "done", "rejected"} /\ ~Rejecting(t)

AdmittedFrom(ip) == {t \in Threads : Admitted(t) /\ client_ip[t] = ip}

\* C1: for every address, the connections that have been admitted and have
\* not finished are at most MAX_CONNECTIONS_PER_IP
C1_OpenConnectionsWithinLimit ==
    \A ip \in IPs : Cardinality(AdmittedFrom(ip)) <= MAX_CONNECTIONS_PER_IP

\* MAX_CONNECTIONS_PER_IP + 1 attempts from ip have all passed the admission
\* check, none has finished, and so little time has passed that the reaper
\* cannot have removed the address in between
ConcurrentAttempts(ip) ==
    /\ now <= CONNECTION_TIMEOUT
    /\ \A t \in Threads :
          pc[t] \notin {"idle", "done"} /\ client_ip[t] = ip /\ releases[t] = 0

RejectedFrom(ip) ==
    {t \in Threads : client_ip[t] = ip /\ (Rejecting(t) \/ pc[t] = "rejected")}

\* C2: of MAX_CONNECTIONS_PER_IP + 1 concurrent attempts from one address,
\* exactly MAX_CONNECTIONS_PER_IP are admitted and exactly one is rejected
\* with a 503: its response has been written or it can go on to write it
C2_OneOfNPlusOneRejected ==
    \A ip \in IPs : ConcurrentAttempts(ip) =>
        /\ Cardinality(AdmittedFrom(ip)) = MAX_CONNECTIONS_PER_IP
        /\ Cardinality(RejectedFrom(ip)) = 1
        /\ \A t \in RejectedFrom(ip) : pc[t] = "rejected" \/ ENABLED HandleStep(t)

\* C3: a rejected connection finishes its 503 response and leaves
\* connection_lock free: whenever the lock is held by a rejecting thread it
\* is free again later, so nobody waits for it forever
C3_RejectionFreesLock ==
    \A t \in Threads : Rejecting(t) ~> (connection_lock = {})

\* C4: a rejected attempt leaves active_connections and last_activity as
\* they were: no step from the failed admission check to the end of the 503
\* response changes either of them
C4_RejectionLeavesRegistry ==
    [][(connection_lock # {} \/ connection_lock' # {})
          => UNCHANGED <<active_connections, last_activity>>]_vars

\* a rejection is under way: the address is at its limit and the rejected
\* thread is inside send_error
C4_Witness ==
    \E t \in Threads :
        /\ Rejecting(t)
        /\ pc[t] = "log_message"
        /\ Cardinality(GetSet(active_connections, client_ip[t])) = MAX_CONNECTIONS_PER_IP

\* C5: an admitted connection runs the release step exactly once, however
\* super().handle() ended (while the outcome is pending the thread is at the
\* release step), and a rejected connection never runs it
C5_ReleaseExactlyOnce ==
    \A t \in Threads :
        /\ releases[t] <= 1
        /\ (pc[t] = "done" => releases[t] = 1)
        /\ (outcome[t] # None => pc[t] = "release" /\ releases[t] = 0)
        /\ (Rejecting(t) \/ pc[t] = "rejected" => releases[t] = 0)

\* one connection has been released once and another one, whose handling
\* raised an unexpected exception, is at its release step
C5_Witness ==
    \E t, u \in Threads :
        /\ pc[t] = "done" /\ releases[t] = 1
        /\ pc[u] = "release" /\ outcome[u] = "other"

\* C6: after the release step of thread t its id is not in the set of its
\* address, and when no other id is left the address has no entry
C6_ReleaseRemovesHandle ==
    [][\A t \in Threads : (pc[t] = "release" /\ pc'[t] = "done") =>
          /\ t \notin GetSet(active_connections', client_ip[t])
          /\ (GetSet(active_connections, client_ip[t]) \ {t} = {}
                => client_ip[t] \notin DOMAIN active_connections')]_vars

\* a last connection has been released (the reaper cannot have acted yet)
\* while another address is still tracked
C6_Witness ==
    \E t \in Threads :
        /\ pc[t] = "done"
        /\ now = 0
        /\ client_ip[t] \notin DOMAIN active_connections
        /\ DOMAIN active_connections # {}

\* C7: a subscriber that was in sse_clients when notify_sse_clients was
\* called, and whose stream stays writable, is eventually sent a reload
\* frame by its own loop
C7_SubscribersGetReload ==
    \A t \in Subscribers : (t \in owed) ~> (t \notin owed)

\* C8: the reload frames written to a stream are at most the calls of
\* notify_sse_clients made since the stream was added; in particular a
\* stream for which no call has been made since then has had no reload frame
C8_NoReloadWithoutNotify ==
    \A t \in Subscribers : pc[t] = "sse_clear" => t \in notified

\* C9: a call of notify_sse_clients made while sse_clients is empty leaves
\* nothing behind: file_change_event is as it was before the call
C9_EmptyNotifyIsNoOp ==
    [][(notify_pc = "idle" /\ notify_pc' = "pass" /\ sse_clients = <<>>)
          => file_change_event' = file_change_event]_vars

\* C10: a pass of notify_sse_clients that holds sse_lock always completes, and it leaves in
\* sse_clients exactly the streams whose write succeeded, in their order
C10_PassDropsExactlyTheDead ==
    /\ [](sse_lock = {Watcher} => ENABLED NotifyPass)
    /\ [][(notify_pc = "pass" /\ notify_pc' = "idle")
             => sse_clients' = SelectSeq(sse_clients, LAMBDA w : w \notin closed)]_vars

\* a pass has removed a stream whose write failed (its thread is still in
\* its loop) and has kept another one
C10_Witness ==
    /\ notify_pc = "idle"
    /\ notify_calls > 0
    /\ sse_clients # <<>>
    /\ \E t \in closed :
          /\ pc[t] \in {"sse_loop", "sse_blocked", "sse_reload", "sse_clear",
                        "sse_keepalive"}
          /\ t \notin Streams(sse_clients)

\* the notification is for a file that the ignore list and the extension
\* filter let through
PassesFilters(e) ==
    ~e.is_directory /\ ~should_ignore(e.path) /\ HasWatchedExtension(e.path)

\* this step delivers a notification; this step begins a call of
\* notify_sse_clients
Delivered == events' = events + 1
Called == notify_calls' = notify_calls + 1

\* C11: of two notifications for one path less than 500 ms apart at most one
\* leads to a call of notify_sse_clients (a notification that leads to a
\* call comes no less than 500 ms after the last one that did), and a
\* notification that comes more than 500 ms after the one before it, or
\* is the first for its path, leads to a call
C11_DebouncePerPath ==
    [][(Delivered /\ PassesFilters(event')) =>
          /\ Called =>
                \/ event'.path \notin DOMAIN last_call
                \/ wclock - last_call[event'.path] >= DEBOUNCE_TENTHS
          /\ (\/ event'.path \notin DOMAIN last_seen
              \/ wclock - last_seen[event'.path] > DEBOUNCE_TENTHS) => Called]_vars

\* the file has been modified twice (under ReloadSpec: within 200 ms, and
\* nothing else is delivered), both notifications have been handled, and
\* subscriber t, who had its connected frame before the first of them and
\* whose stream is still writable, is back in wait() with no event pending:
\* nothing more will be written to it on account of the two modifications
Settled(t) ==
    /\ events = 2
    /\ notify_pc = "idle"
    /\ t \in listening
    /\ t \notin closed
    /\ pc[t] = "sse_blocked"
    /\ ~file_change_event

\* C12: such a subscriber is sent exactly one reload frame: never more than
\* one, and one by the time everything has settled
C12_ExactlyOneReload ==
    \A t \in Subscribers :
        /\ reloads[t] <= 1
        /\ Settled(t) => reloads[t] = 1

\* this step is a pass of the reaper; the pass removes address ip
ReaperPasses == reaper_pc = "pass" /\ reaper_pc' = "sleep"
Reaped(ip) == ip \notin DOMAIN last_activity' /\ ip \notin DOMAIN active_connections'

\* C13: a pass of the reaper removes an address if and only if its last
\* activity is more than CONNECTION_TIMEOUT old at the time of the pass
C13_ReapsExactlyTheStale ==
    [][ReaperPasses =>
          \A ip \in DOMAIN last_activity :
              Reaped(ip) <=> now - last_activity[ip] > CONNECTION_TIMEOUT]_vars

\* C13 as amended: a pass removes an address if and only if its last
\* activity is more than CONNECTION_TIMEOUT older than the time the reaper
\* read before it took connection_lock; an address whose last activity is
\* within CONNECTION_TIMEOUT of the time of the pass is never removed
C13_ReapsByItsClock ==
    [][ReaperPasses =>
          \A ip \in DOMAIN last_activity :
              /\ Reaped(ip) <=> current_time - last_activity[ip] > CONNECTION_TIMEOUT
              /\ Reaped(ip) => now - last_activity[ip] > CONNECTION_TIMEOUT
              /\ ~Reaped(ip) => /\ ip \in DOMAIN last_activity'
                                /\ last_activity'[ip] = last_activity[ip]]_vars

\* the reaper has removed the address of a connection that is still open and
\* has left the entry of another address, touched earlier than now
C13_Witness ==
    /\ reaper_pc = "sleep"
    /\ \E t \in Threads : Admitted(t) /\ client_ip[t] \notin DOMAIN last_activity
    /\ \E ip \in DOMAIN last_activity : last_activity[ip] < now

\* C14: the first frame written to a subscriber's stream after its headers
\* is the connected frame: a pass of notify_sse_clients writes its keepalive
\* comments only to streams that have had their connected frame (the
\* handler's own loop, which writes the other frames, starts after it)
C14_ConnectedFrameFirst ==
    [][(notify_pc = "pass" /\ notify_pc' = "idle") =>
          \A t \in KeepaliveWritten(sse_clients, closed) : pc[t] \in LoopPcs]_vars

\* handle_sse_reload has returned on thread t: the thread is past the finally
\* block of the handler
SseReturned(t) == pc[t] \in {"handled", "release", "done"}

\* C15: once handle_sse_reload has returned, by whichever path, the stream
\* of that connection is not in sse_clients
C15_ReturnedStreamUnregistered ==
    \A t \in Subscribers : SseReturned(t) => t \notin Streams(sse_clients)

\* a handler has returned after its peer closed the socket, while the
\* stream of another subscriber is still registered
C15_Witness ==
    \E t \in closed :
        /\ SseReturned(t)
        /\ notify_calls = 0
        /\ sse_clients # <<>>

\* this step writes a reload frame or a keepalive to the stream of thread t
FrameWritten(t) ==
    \/ pc[t] = "sse_reload" /\ pc'[t] = "sse_clear"
    \/ pc[t] = "sse_keepalive" /\ pc'[t] = "sse_loop"

\* C16: every frame streamed to a subscriber updates last_activity of the
\* subscriber's address to the current time
C16_FrameTouchesActivity ==
    [][\A t \in Subscribers : FrameWritten(t) =>
          /\ client_ip[t] \in DOMAIN last_activity'
          /\ last_activity'[client_ip[t]] = now]_vars

\* C17: a notification that leads to a call of notify_sse_clients is for a
\* path that does not match the ignore list and has a watched extension,
\* whichever kind the notification is
C17_OnlyWatchedFilesNotify ==
    [][(Delivered /\ Called) =>
          /\ ~should_ignore(event'.path)
          /\ HasWatchedExtension(event'.path)]_vars

\* C18: a subscriber whose peer has closed the socket is eventually out of
\* sse_clients and out of the set of its address in active_connections,
\* whether or not notify_sse_clients is called again
C18_ClosedSubscriberReleased ==
    \A t \in Subscribers :
        (t \in closed /\ pc[t] \in LoopPcs)
            ~> (/\ t \notin Streams(sse_clients)
                /\ t \notin GetSet(active_connections, client_ip[t]))

\* C19: whenever connection_lock is free, every address in
\* active_connections has a non-empty set
C19_NoEmptyEntries ==
    connection_lock = {} =>
        \A ip \in DOMAIN active_connections : active_connections[ip] # {}

\* two connections of one address have been released, the second release
\* emptying the set, while a connection of another address is tracked
C19_Witness ==
    /\ connection_lock = {}
    /\ \E t, u \in Threads :
          /\ t # u
          /\ pc[t] = "done" /\ pc[u] = "done"
          /\ client_ip[t] = client_ip[u]
          /\ client_ip[t] \notin DOMAIN active_connections
    /\ DOMAIN active_connections # {}

\* C20: no thread holds connection_lock and sse_lock at the same time
C20_LocksNeverNested ==
    connection_lock \cap sse_lock = {}

\* both locks are held at once, by different threads: a rejected connection
\* holds connection_lock while a subscriber or the watcher holds sse_lock
C20_Witness ==
    /\ connection_lock # {}
    /\ sse_lock # {}
    /\ \E t \in Subscribers : pc[t] \in LoopPcs

\* thread t is inside send_error or send_response: it is producing the
\* response that is written to its client's socket
Responding(t) == pc[t] \in {"log_message", "log_request"}

\* C21: no thread sends a response or an error to a client while it holds
\* connection_lock: the lock is held only around the in-memory updates of
\* active_connections and last_activity
C21_NoResponseUnderLock ==
    \A t \in connection_lock : ~Responding(t)

\* C23: while the clock does not go back, every update of last_activity
\* writes the current time, so the value of an address never decreases from
\* one update to the next and never exceeds the clock, whichever threads
\* make the updates and in whichever order they get the lock
C23_ActivityNeverDecreases ==
    [][\A ip \in DOMAIN last_activity' :
          /\ last_activity'[ip] <= now'
          /\ ip \in DOMAIN last_activity =>
                /\ last_activity'[ip] >= last_activity[ip]
                /\ last_activity'[ip] # last_activity[ip] => last_activity'[ip] = now
          /\ ip \notin DOMAIN last_activity => last_activity'[ip] = now]_vars

\* two connections of one address have both been touched by their request
\* log, the later touch after the clock advanced, and a third one is inside
\* a handler that can touch the address itself
C23_Witness ==
    \E t, u, v \in Threads :
        /\ t # u
        /\ pc[t] = "handled" /\ pc[u] = "log_request" /\ pc[v] = "handling"
        /\ client_ip[t] = client_ip[u]
        /\ client_ip[t] \in DOMAIN last_activity
        /\ last_activity[client_ip[t]] = now
        /\ now > 0

\* this step is the filter that thread u runs on its own stream (after a
\* failed connected frame, or in the finally block of the handler)
FiltersItself(u) ==
    \/ pc[u] = "sse_unregister" /\ pc'[u] = "sse_cleanup"
    \/ pc[u] = "sse_cleanup" /\ pc'[u] = "handled"

\* C25: a step drops a stream from sse_clients only if it is the pass of
\* notify_sse_clients and the write to that stream failed, or the stream's
\* own handler filtering it out; the other streams keep their order, and a
\* registration adds its stream whatever else is going on
C25_RewritesDropOnlyTheirOwn ==
    [][/\ \A u \in Streams(sse_clients) :
             u \notin Streams(sse_clients') =>
                \/ notify_pc = "pass" /\ notify_pc' = "idle" /\ u \in closed
                \/ FiltersItself(u)
       /\ SelectSeq(sse_clients, LAMBDA w : w \in Streams(sse_clients'))
             = SelectSeq(sse_clients', LAMBDA w : w \in Streams(sse_clients))
       /\ \A t \in Subscribers :
             (pc[t] = "sse_register" /\ pc'[t] = "sse_connected")
                => t \in Streams(sse_clients')]_vars

\* the watcher holds sse_lock for its pass; one stream in sse_clients is dead
\* and will be dropped, another one was registered after this call of
\* notify_sse_clients began
C25_Witness ==
    /\ notify_pc = "pass"
    /\ sse_lock = {Watcher}
    /\ notify_calls = 1
    /\ \E t, u \in Streams(sse_clients) :
          /\ t \notin notified /\ t \notin closed
          /\ u \in closed

\* C26: whenever connection_lock is free, every address with an entry in
\* active_connections has an entry in last_activity
C26_TrackedAddressesHaveActivity ==
    connection_lock = {} =>
        DOMAIN active_connections \subseteq DOMAIN last_activity

\* the reaper has removed an address whose connection is still open, a newer
\* connection of that address has been admitted since, and another address
\* has its last_activity entry only
C26_Witness ==
    /\ connection_lock = {}
    /\ \E t \in Threads :
          /\ Admitted(t)
          /\ client_ip[t] \in DOMAIN active_connections
          /\ t \notin active_connections[client_ip[t]]
    /\ DOMAIN last_activity # DOMAIN active_connections

\* the reaper removed the address of thread t while its connection was open
\* (the connection is still tracked nowhere) and connections admitted since
\* then are tracked for that address
EvictedWithNewer(t) ==
    /\ client_ip[t] \in DOMAIN active_connections
    /\ t \notin active_connections[client_ip[t]]

\* C27: the release step of a connection whose address the reaper removed,
\* and which has newer connections tracked, leaves active_connections as it
\* is (no handle of the newer connections is removed and the entry stays),
\* and it completes like any other release
C27_LateReleaseKeepsNewer ==
    [][\A t \in Threads :
          (pc[t] = "release" /\ EvictedWithNewer(t)) =>
              /\ ENABLED Release(t) <=> connection_lock = {}
              /\ pc'[t] # pc[t] =>
                    /\ pc'[t] = "done"
                    /\ active_connections' = active_connections]_vars

\* the reaper removed the address while the connection of thread t was open,
\* a newer connection of the address has been admitted and is tracked, and
\* thread t is at its release step with connection_lock free
C27_Witness ==
    \E t, v \in Threads :
        /\ t # v
        /\ pc[t] = "release" /\ releases[t] = 0
        /\ EvictedWithNewer(t)
        /\ Admitted(v) /\ client_ip[v] = client_ip[t]
        /\ v \in active_connections[client_ip[t]]
        /\ connection_lock = {}

\* C28: an entry of last_activity that is not touched any more is
\* eventually removed by the reaper: an entry with value v is later either
\* gone or touched again after v (entries so recent that the model's clock
\* stops before they are older than CONNECTION_TIMEOUT are left out)
C28_UntouchedEntriesReaped ==
    \A ip \in IPs : \A v \in 0..MaxTime :
        (/\ ip \in DOMAIN last_activity
         /\ last_activity[ip] = v
         /\ v + CONNECTION_TIMEOUT < MaxTime)
            ~> (ip \notin DOMAIN last_activity \/ last_activity[ip] > v)

\* C22: an iteration of the reaper that raises does not end the loop: the
\* with statement has released connection_lock when the exception is caught,
\* the except clause completes, and the loop is back at its sleep, from
\* which the next iteration starts
C22_ReaperSurvivesFailure ==
    /\ [](reaper_pc \in {"sleep", "pass", "except"})
    /\ [](reaper_pc = "except" => ENABLED ReaperLogError)
    /\ [](reaper_pc = "sleep" => ENABLED ReaperWake)
    /\ [][(reaper_pc = "pass" /\ reaper_pc' # "pass") => connection_lock' = {}]_vars
    /\ [][reaper_pc = "except" => reaper_pc' \in {"except", "sleep"}]_vars

\* an iteration raised after it had removed one of two inactive addresses,
\* the loop went on, and the next iteration is about to make its pass
C22_Witness ==
    /\ reaper_pc = "pass"
    /\ connection_lock = {}
    /\ now = MaxTime
    /\ \E ip \in InactiveIPs : \E t \in Threads :
          /\ client_ip[t] \notin {None, ip}
          /\ pc[t] = "handling"
          /\ client_ip[t] \notin DOMAIN last_activity

\* C29: a modification of a watched file leads to a call of
\* notify_sse_clients exactly when the path has no accepted modification yet
\* or the last accepted one is at least 500 ms old, however many suppressed
\* modifications came in between; a suppressed modification leaves
\* last_modified as it is, an accepted one sets the entry of its path
C29_DebounceAnchoredToAccepted ==
    [][(Delivered /\ event'.kind = "modified" /\ PassesFilters(event')) =>
          /\ Called <=>
                \/ event'.path \notin DOMAIN last_modified
                \/ wclock - last_modified[event'.path] >= DEBOUNCE_TENTHS
          /\ ~Called => last_modified' = last_modified
          /\ Called => last_modified' = Put(last_modified, event'.path, wclock)]_vars

\* three modifications of the file: the first accepted, the second
\* suppressed, and the third, 500 ms after the first, accepted: its call of
\* notify_sse_clients is under way
C29_Witness ==
    /\ events = 3
    /\ notify_calls = 2
    /\ notify_pc = "pass"
    /\ wclock = DEBOUNCE_TENTHS
    /\ WatchedFile \in DOMAIN last_modified
    /\ last_modified[WatchedFile] = wclock

\* the threads that are inside a write to stream s
Writers(s) == {w \in Threads \cup {Watcher} : <<w, s>> \in writing}

\* C24: at no time are two threads inside a write to the same stream: the
\* keepalive that notify_sse_clients writes to a subscriber's stream never
\* overlaps a frame that the subscriber's own handler writes to it
C24_OneWriterPerStream ==
    \A s \in Subscribers : Cardinality(Writers(s)) <= 1

\* thread c is inside start_server_thread
InStart(c) == caller_pc[c] \in StartPcs

\* C30: at most one thread at a time is inside start_server_thread, and the
\* instances created are at most the first one and one for every restart
\* asked for on the dashboard
C30_OneStarterAtATime ==
    /\ Cardinality({c \in Callers : InStart(c)}) <= 1
    /\ Cardinality(Created) <= 1 + restarts

====
